---- MODULE Spec2Model ----
(***************************************************************************)
(* Model of two eBPF probes of Inspektor Gadget:                           *)
(*   - pkg/gadgets/dns/tracer/bpf/dns.c            (socket filter)         *)
(*   - pkg/gadgets/audit-seccomp/tracer/bpf/audit-seccomp.c  (kprobe)      *)
(* SpecDns runs bpf_prog1 on one frame drawn from a bounded set of frames. *)
(* SpecAudit interleaves firings of kprobe__audit_seccomp on several CPUs  *)
(* with external writes to the containers and filter maps.                 *)
(***************************************************************************)
EXTENDS Integers, Sequences, FiniteSets, TLC

VARIABLES
    target,      \* byte order of the BPF target the object was built for
    skb,         \* the frame handed to bpf_prog1
    dns_pc,      \* "recv" before bpf_prog1 ran on skb, "done" after it returned
    dns_run,     \* what the invocation did: locals of bpf_prog1 at its return
    dns_events,  \* records written to the DNS perf event array
    with_filter, \* whether audit-seccomp.c was compiled with WITH_FILTER
    filter,      \* the filter map: set of mount namespace ids
    containers,  \* the containers map: mount namespace id -> snapshot
    tmp_event,   \* the per-CPU array tmp_event: slot -> struct event
    apc,         \* per CPU: position of the kprobe program
    cur,         \* per CPU: the firing being (or last) run, <<>> before any
    lookup,      \* per CPU: the entry stored under the firing's id when it looked it up
    emitted,     \* per CPU: records the current firing wrote to the perf array
    ret          \* per CPU: return values of the current firing

dnsVars   == <<target, skb, dns_pc, dns_run, dns_events>>
auditVars == <<with_filter, filter, containers, tmp_event, apc, cur, lookup, emitted, ret>>
vars      == <<target, skb, dns_pc, dns_run, dns_events,
               with_filter, filter, containers, tmp_event, apc, cur, lookup, emitted, ret>>

(***************************************************************************)
(*                              DNS probe                                  *)
(***************************************************************************)

\* Capacity of event_t.name and cap of the label loop (scaled down).
MAX_DNS_NAME == 4

ETH_P_IP == 2048
IPPROTO_UDP == 17

\* Byte values a frame may hold in the question section.
Bytes == {0, 1, 2}

\* Bytes of the frame after the DNS header that the program can read: the
\* name bytes the loop may visit, a terminator and the two QTYPE bytes.
NameRegion == MAX_DNS_NAME + 3

\* The 16-bit DNS flags as they appear on the wire (RFC 1035 4.1.1):
\* QR is the most significant bit, RD bit 8, RA bit 7.
\* a plain query, a query with RD, a query with RA set, a bare response, and
\* a recursive resolver's response (QR, RD, RA).
WireFlags == {0, 256, 128, 32768, 33152}

Frames ==
    [ h_proto  : {ETH_P_IP, 34525},
      protocol : {IPPROTO_UDP, 6},
      flags    : WireFlags,
      qdcount  : {1, 2},
      ancount  : {0, 1},
      nscount  : {0, 1},
      pkt_type : {0},
      qname    : [0 .. NameRegion - 1 -> Bytes] ]

\* load_half: BPF_LD_ABS of a half word, network order converted to a host value.
load_half(hi, lo) == hi * 256 + lo

\* The byte of union dnsflags that holds the first anonymous struct byte
\* (rd, tc, aa, opcode, qr) once flags.flags was assigned the host value v.
dnsflags_byte0(t, v) == IF t = "bpfel" THEN v % 256 ELSE v \div 256

\* flags.qr: rd:1, tc:1, aa:1, opcode:4, qr:1 declared in this order; a
\* little-endian target allocates bit-fields from the least significant bit,
\* a big-endian target from the most significant bit.
dnsflags_qr(t, v) ==
    IF t = "bpfel" THEN (dnsflags_byte0(t, v) \div 128) % 2
    ELSE dnsflags_byte0(t, v) % 2

\* The label loop with the cap tested as i <= MAX_DNS_NAME.
RECURSIVE LabelLoopInclusive(_, _, _, _, _)
LabelLoopInclusive(name, i, skip, reads, iters) ==
    IF ~(i <= MAX_DNS_NAME) THEN
        [i |-> i, skip |-> skip, reads |-> reads, iters |-> iters]
    ELSE IF skip # 0 THEN
        LabelLoopInclusive(name, i + 1, skip - 1, reads, iters + 1)
    ELSE
        LET label_len == name[i] IN
        IF label_len = 0 THEN
            [i |-> i, skip |-> skip, reads |-> reads \cup {i}, iters |-> iters + 1]
        ELSE
            LabelLoopInclusive(name, i + 1, label_len, reads \cup {i}, iters + 1)

\* The label loop with skip = label_len - 1.
RECURSIVE LabelLoopShortSkip(_, _, _, _, _)
LabelLoopShortSkip(name, i, skip, reads, iters) ==
    IF ~(i < MAX_DNS_NAME) THEN
        [i |-> i, skip |-> skip, reads |-> reads, iters |-> iters]
    ELSE IF skip # 0 THEN
        LabelLoopShortSkip(name, i + 1, skip - 1, reads, iters + 1)
    ELSE
        LET label_len == name[i] IN
        IF label_len = 0 THEN
            [i |-> i, skip |-> skip, reads |-> reads \cup {i}, iters |-> iters + 1]
        ELSE
            LabelLoopShortSkip(name, i + 1, label_len - 1, reads \cup {i}, iters + 1)

\* The label loop of bpf_prog1, from iteration i on. reads collects the
\* indexes passed to load_byte, iters counts the loop bodies entered.
RECURSIVE LabelLoop(_, _, _, _, _)
LabelLoop(name, i, skip, reads, iters) ==
    IF ~(i < MAX_DNS_NAME) THEN
        [i |-> i, skip |-> skip, reads |-> reads, iters |-> iters]
    ELSE IF skip # 0 THEN
        LabelLoop(name, i + 1, skip - 1, reads, iters + 1)
    ELSE
        LET label_len == name[i] IN
        IF label_len = 0 THEN
            [i |-> i, skip |-> skip, reads |-> reads \cup {i}, iters |-> iters + 1]
        ELSE
            LabelLoop(name, i + 1, label_len, reads \cup {i}, iters + 1)

\* __u32 len = i < MAX_DNS_NAME ? i : MAX_DNS_NAME
NameLen(i) == IF i < MAX_DNS_NAME THEN i ELSE MAX_DNS_NAME

\* struct event_t event = {0,}; bpf_skb_load_bytes(..., event.name, len) if len > 0
EventName(name, len) ==
    [j \in 0 .. MAX_DNS_NAME - 1 |-> IF len > 0 /\ j < len THEN name[j] ELSE 0]

\* QTYPE read at len, on the terminator, instead of len + 1.
EventQtypeAtTerminator(name, len) == load_half(name[len], name[len + 1])

\* event.qtype = load_half(skb, DNS_OFF + sizeof(struct dnshdr) + len + 1)
EventQtype(name, len) == load_half(name[len + 1], name[len + 2])

NoRun == [admitted |-> FALSE, i |-> 0, skip |-> 0, reads |-> {}, iters |-> 0,
          len |-> 0, copied |-> 0]

\* The validation chain without the authority-record check.
ValidateNoNscount(t, f) ==
    /\ f.h_proto = ETH_P_IP
    /\ f.protocol = IPPROTO_UDP
    /\ dnsflags_qr(t, f.flags) = 0
    /\ f.qdcount = 1
    /\ f.ancount = 0

\* The validation chain of bpf_prog1: TRUE when no check returns early.
Validate(t, f) ==
    /\ f.h_proto = ETH_P_IP
    /\ f.protocol = IPPROTO_UDP
    /\ dnsflags_qr(t, f.flags) = 0
    /\ f.qdcount = 1
    /\ f.ancount = 0
    /\ f.nscount = 0

\* One invocation of bpf_prog1 on the frame skb.
bpf_prog1 ==
    /\ dns_pc = "recv"
    /\ dns_pc' = "done"
    /\ IF ~Validate(target, skb) THEN
           /\ dns_run' = NoRun
           /\ dns_events' = dns_events
       ELSE
           LET l   == LabelLoop(skb.qname, 0, 0, {}, 0)
               len == NameLen(l.i)
           IN  /\ dns_run' = [admitted |-> TRUE, i |-> l.i, skip |-> l.skip,
                              reads |-> l.reads, iters |-> l.iters, len |-> len,
                              copied |-> IF len > 0 THEN len ELSE 0]
               /\ dns_events' = Append(dns_events,
                                   [name     |-> EventName(skb.qname, len),
                                    qtype    |-> EventQtype(skb.qname, len),
                                    pkt_type |-> skb.pkt_type])
    /\ UNCHANGED <<target, skb>>
    /\ UNCHANGED auditVars

(***************************************************************************)
(*                          audit-seccomp probe                            *)
(***************************************************************************)

NCpu == 2
CPUs == 0 .. NCpu - 1

\* max_entries of tmp_event, and the key the program looks up in it.
max_entries == 1
zero == 0

\* Mount namespace ids that may be keys of the maps (0 is never a key).
MntnsKeys == {1, 2}
\* The container snapshot the external populator stores for a namespace.
ContainerOf(k) == IF k = 1 THEN "A" ELSE "B"
\* sizeof(event->container) zero bytes.
ZeroContainer == "zero"

\* Tasks that may hit the kprobe: bpf_get_current_pid_tgid() is
\* tgid << 32 | pid, kept as its two 32-bit halves.
Tasks ==
    { [pid_tgid |-> [tgid |-> 1, pid |-> 1], comm |-> "init", mntns |-> 0],
      [pid_tgid |-> [tgid |-> 2, pid |-> 3], comm |-> "sh",   mntns |-> 1],
      [pid_tgid |-> [tgid |-> 4, pid |-> 4], comm |-> "ls",   mntns |-> 2] }

\* Argument registers at the kprobe: PARM1 and PARM3, the latter kept as its
\* two 32-bit halves.
Regs ==
    { [parm1 |-> 59, parm3 |-> [hi |-> 0, lo |-> 7]],
      [parm1 |-> 1,  parm3 |-> [hi |-> 1, lo |-> 5]] }

\* A firing: the current task and the argument registers.
Firings == { f \in [task : Tasks, regs : Regs] :
                 f.task.mntns = 0 \/ (f.task.mntns = 1) = (f.regs.parm1 = 59) }

\* A zero-initialised struct event (array map values start zeroed).
ZeroEvent == [pid |-> 0, mntns_id |-> 0, syscall |-> 0, code |-> 0,
              comm |-> "", container |-> ZeroContainer]

\* unsigned long syscall = PT_REGS_PARM1(ctx)
ReadSyscall(f) == f.regs.parm1
\* int code = PT_REGS_PARM3(ctx): the low 32 bits of the register
ReadCode(f) == f.regs.parm3.lo
\* __u64 mntns_id = BPF_CORE_READ(task, nsproxy, mnt_ns, ns.inum)
ReadMntns(f) == f.task.mntns
\* The sentinel check left out.
IsSentinelNever(id) == FALSE
\* if (mntns_id == 0) return 0
IsSentinel(id) == id = 0
\* The 32-bit process id field of struct event assigned a 64-bit value: the
\* low 32 bits are kept.
StoreU32(v) == v.pid
\* event->pid = bpf_get_current_pid_tgid()
EventPid(f) == StoreU32(f.task.pid_tgid)

\* The filter lookup result ignored.
FilterAdmitsAll(wf, flt, id) == TRUE

\* bpf_map_lookup_elem(&filter, &mntns_id) under #ifdef WITH_FILTER
FilterAdmits(wf, flt, id) == IF wf THEN id \in flt ELSE TRUE

\* tmp_event as a plain BPF_MAP_TYPE_ARRAY: one slot shared by all CPUs.
ScratchSlotShared(c, key) == IF key < max_entries THEN <<0>> ELSE <<>>

\* bpf_map_lookup_elem(&tmp_event, &key) on CPU c: this CPU's copy of the
\* entry, or nothing when the key is outside the array.
ScratchSlot(c, key) == IF key < max_entries THEN <<c>> ELSE <<>>

\* bpf_map_lookup_elem(&containers, &mntns_id)
ContainersLookup(tbl, id) == IF id \in DOMAIN tbl THEN <<tbl[id]>> ELSE <<>>

\* The container field left as it was on a miss (no memset).
EnrichContainerStale(old, entry) == IF entry # <<>> THEN entry[1] ELSE old

\* The container field after the lookup: copied on a hit, zeroed on a miss.
EnrichContainer(old, entry) == IF entry # <<>> THEN entry[1] ELSE ZeroContainer

\* event->pid .. bpf_get_current_comm
Populate(ev, f) ==
    [ev EXCEPT !.pid = EventPid(f), !.mntns_id = ReadMntns(f),
               !.syscall = ReadSyscall(f), !.code = ReadCode(f),
               !.comm = f.task.comm]

Return(c) ==
    /\ apc' = [apc EXCEPT ![c] = "idle"]
    /\ ret' = [ret EXCEPT ![c] = Append(ret[c], 0)]

\* The kernel reaches audit_seccomp on CPU c (the program is not re-entered
\* on a CPU where it is running) and the program runs lines 32-55: it reads
\* the arguments and the mount namespace id, returns on the sentinel, on a
\* filter miss or without a scratch slot, else fills the fixed fields.
Prologue(c) ==
    /\ apc[c] = "idle"
    /\ \E f \in Firings :
          LET event == ScratchSlot(c, zero) IN
          /\ cur' = [cur EXCEPT ![c] = <<f>>]
          /\ lookup' = [lookup EXCEPT ![c] = <<>>]
          /\ emitted' = [emitted EXCEPT ![c] = <<>>]
          /\ IF \/ IsSentinel(ReadMntns(f))
                \/ ~FilterAdmits(with_filter, filter, ReadMntns(f))
                \/ event = <<>>
             THEN /\ apc' = apc
                  /\ ret' = [ret EXCEPT ![c] = <<0>>]
                  /\ tmp_event' = tmp_event
             ELSE /\ apc' = [apc EXCEPT ![c] = "enrich"]
                  /\ ret' = [ret EXCEPT ![c] = <<>>]
                  /\ tmp_event' = [tmp_event EXCEPT
                                      ![event[1]] = Populate(tmp_event[event[1]], f)]
    /\ UNCHANGED <<with_filter, filter, containers>>
    /\ UNCHANGED dnsVars

\* Lines 57-62: the containers lookup, then copy or zero-fill.
Enrich(c) ==
    /\ apc[c] = "enrich"
    /\ LET event == ScratchSlot(c, zero)[1]
           container_entry == ContainersLookup(containers, ReadMntns(cur[c][1]))
           id == cur[c][1].task.mntns
       IN  /\ lookup' = [lookup EXCEPT ![c] =
                            <<IF id \in DOMAIN containers THEN <<containers[id]>> ELSE <<>>>>]
           /\ tmp_event' = [tmp_event EXCEPT ![event].container =
                               EnrichContainer(tmp_event[event].container, container_entry)]
    /\ apc' = [apc EXCEPT ![c] = "emit"]
    /\ UNCHANGED <<with_filter, filter, containers, cur, emitted, ret>>
    /\ UNCHANGED dnsVars

\* Lines 64-65: bpf_perf_event_output of the slot, return 0.
Emit(c) ==
    /\ apc[c] = "emit"
    /\ LET event == ScratchSlot(c, zero)[1] IN
       emitted' = [emitted EXCEPT ![c] = Append(emitted[c], tmp_event[event])]
    /\ Return(c)
    /\ UNCHANGED <<with_filter, filter, containers, tmp_event, cur, lookup>>
    /\ UNCHANGED dnsVars

\* The external populator adds an entry to the containers map.
ContainersUpdate ==
    /\ \E k \in MntnsKeys \ DOMAIN containers :
          containers' = [x \in DOMAIN containers \cup {k} |->
                            IF x = k THEN ContainerOf(k) ELSE containers[x]]
    /\ UNCHANGED <<with_filter, filter, tmp_event, apc, cur, lookup, emitted, ret>>
    /\ UNCHANGED dnsVars

\* The external populator deletes an entry of the containers map.
ContainersDelete ==
    /\ \E k \in DOMAIN containers :
          containers' = [x \in DOMAIN containers \ {k} |-> containers[x]]
    /\ UNCHANGED <<with_filter, filter, tmp_event, apc, cur, lookup, emitted, ret>>
    /\ UNCHANGED dnsVars

\* User space adds or removes a key of the filter map (the map is only read
\* by objects compiled with WITH_FILTER).
FilterUpdate ==
    /\ with_filter
    /\ \E k \in MntnsKeys :
          /\ k \notin filter
          /\ filter' = filter \cup {k}
    /\ UNCHANGED <<with_filter, containers, tmp_event, apc, cur, lookup, emitted, ret>>
    /\ UNCHANGED dnsVars

FilterDelete ==
    /\ with_filter
    /\ \E k \in filter : filter' = filter \ {k}
    /\ UNCHANGED <<with_filter, containers, tmp_event, apc, cur, lookup, emitted, ret>>
    /\ UNCHANGED dnsVars

(***************************************************************************)
(*                             Specifications                              *)
(***************************************************************************)

AuditInit ==
    /\ with_filter \in BOOLEAN
    /\ filter = {}
    /\ containers = <<>>
    /\ tmp_event = [c \in CPUs |-> ZeroEvent]
    /\ apc = [c \in CPUs |-> "idle"]
    /\ cur = [c \in CPUs |-> <<>>]
    /\ lookup = [c \in CPUs |-> <<>>]
    /\ emitted = [c \in CPUs |-> <<>>]
    /\ ret = [c \in CPUs |-> <<>>]

DnsInit ==
    /\ target \in {"bpfel", "bpfeb"}
    /\ skb \in Frames
    /\ dns_pc = "recv"
    /\ dns_run = NoRun
    /\ dns_events = <<>>

\* The DNS probe alone: the audit probe is loaded but never fires.
InitDns ==
    /\ DnsInit
    /\ AuditInit
    /\ with_filter = FALSE

NextDns == bpf_prog1

SpecDns == InitDns /\ [][NextDns]_vars

\* The audit probe alone: no frame reaches the socket filter.
InitAudit ==
    /\ AuditInit
    /\ target = "bpfel"
    /\ skb = [h_proto |-> ETH_P_IP, protocol |-> IPPROTO_UDP, flags |-> 0,
              qdcount |-> 1, ancount |-> 0, nscount |-> 0, pkt_type |-> 0,
              qname |-> [j \in 0 .. NameRegion - 1 |-> 0]]
    /\ dns_pc = "recv"
    /\ dns_run = NoRun
    /\ dns_events = <<>>

NextAudit ==
    \/ \E c \in CPUs : Prologue(c)
    \/ \E c \in CPUs : Enrich(c)
    \/ \E c \in CPUs : Emit(c)
    \/ ContainersUpdate
    \/ ContainersDelete
    \/ FilterUpdate
    \/ FilterDelete

SpecAudit == InitAudit /\ [][NextAudit]_vars

Spec == SpecAudit


(***************************************************************************)
(*                        Properties of the DNS probe                      *)
(***************************************************************************)

DnsDone == dns_pc = "done"

\* The QR bit of the flags as they appear on the wire.
WireQR(f) == f.flags \div 32768

\* The checks of the validation chain other than the flags check.
OtherChecksPass(f) ==
    /\ f.h_proto = 2048
    /\ f.protocol = 17
    /\ f.qdcount = 1
    /\ f.ancount = 0
    /\ f.nscount = 0

\* The direct additive traversal: from p, stop when p >= cap or the byte at
\* p is 0, else jump to p + 1 + byte[p].
RECURSIVE AdditiveWalk(_, _, _)
AdditiveWalk(name, p, cap) ==
    IF p >= cap THEN p
    ELSE IF name[p] = 0 THEN p
    ELSE AdditiveWalk(name, p + 1 + name[p], cap)

\* The positions below cap at which the additive traversal reads a length byte.
RECURSIVE AdditiveVisits(_, _, _)
AdditiveVisits(name, p, cap) ==
    IF p >= cap THEN {}
    ELSE IF name[p] = 0 THEN {p}
    ELSE {p} \cup AdditiveVisits(name, p + 1 + name[p], cap)

Min(a, b) == IF a < b THEN a ELSE b

\* The first n bytes of the name, zero after them, in a buffer of MAX_DNS_NAME bytes.
Prefix(name, n) == [j \in 0 .. MAX_DNS_NAME - 1 |-> IF j < n THEN name[j] ELSE 0]

\* C2: a frame whose wire QR bit is set yields no event, whatever the other
\* flag bits; a frame passing the other checks with QR clear is not rejected
\* by the flags check.
C2_ResponseBitDecides ==
    DnsDone =>
        /\ (WireQR(skb) = 1 => dns_events = <<>>)
        /\ (WireQR(skb) = 0 /\ OtherChecksPass(skb) => dns_run.admitted)

C4_ValidationChain ==
    DnsDone =>
        /\ (dns_events # <<>> => OtherChecksPass(skb))
        /\ (~OtherChecksPass(skb) => dns_events = <<>> /\ dns_run = NoRun)

C4_Witness ==
    /\ DnsDone
    /\ skb.h_proto = 2048 /\ skb.protocol = 17 /\ skb.flags = 256
    /\ skb.qdcount = 1 /\ skb.ancount = 0 /\ skb.nscount = 1
    /\ target = "bpfel"
    /\ dns_events = <<>>

\* C7: when the traversal meets no zero-length label below MAX_DNS_NAME, the
\* loop runs exactly MAX_DNS_NAME iterations, the length is MAX_DNS_NAME,
\* MAX_DNS_NAME bytes are copied and no index >= MAX_DNS_NAME is read.
C7_CappedName ==
    (DnsDone /\ dns_run.admitted
        /\ AdditiveWalk(skb.qname, 0, MAX_DNS_NAME) >= MAX_DNS_NAME) =>
        /\ dns_run.iters = MAX_DNS_NAME
        /\ dns_run.len = MAX_DNS_NAME
        /\ dns_run.copied = MAX_DNS_NAME
        /\ \A r \in dns_run.reads : r < MAX_DNS_NAME
        /\ Len(dns_events) = 1
        /\ dns_events[1].name = Prefix(skb.qname, MAX_DNS_NAME)

C7_Witness ==
    /\ DnsDone /\ dns_run.admitted
    /\ AdditiveWalk(skb.qname, 0, MAX_DNS_NAME) = MAX_DNS_NAME
    /\ \A j \in 0 .. NameRegion - 1 : skb.qname[j] # 0
    /\ dns_run.len = MAX_DNS_NAME

\* C9: the length computed by the capped loop with the skip counter is
\* min(MAX_DNS_NAME, p) for p the end of the additive traversal, and the loop
\* reads length bytes exactly at the positions that traversal visits.
C9_SkipCounterEquivalence ==
    (DnsDone /\ dns_run.admitted) =>
        /\ dns_run.len = Min(MAX_DNS_NAME, AdditiveWalk(skb.qname, 0, MAX_DNS_NAME))
        /\ dns_run.reads = AdditiveVisits(skb.qname, 0, MAX_DNS_NAME)

C9_Witness ==
    /\ DnsDone /\ dns_run.admitted
    /\ AdditiveWalk(skb.qname, 0, MAX_DNS_NAME) > MAX_DNS_NAME
    /\ Cardinality(dns_run.reads) >= 2
    /\ dns_run.skip > 0

(***************************************************************************)
(*                   Properties of the audit-seccomp probe                 *)
(***************************************************************************)

\* CPU c starts a firing in this step.
Starts(c) ==
    /\ apc[c] = "idle"
    /\ <<cur[c], lookup[c], emitted[c], ret[c], apc[c]>>'
           # <<cur[c], lookup[c], emitted[c], ret[c], apc[c]>>

\* The container field the firing on CPU c must carry: the snapshot stored
\* under its namespace id when it looked it up, zero bytes when none was.
Stored(c) == IF lookup[c][1] # <<>> THEN lookup[c][1][1] ELSE "zero"

\* C1: the container field of an emitted event is the snapshot stored under
\* the firing's namespace id at lookup time, and all-zero when the id was absent.
C1_ContainerField ==
    \A c \in CPUs :
        emitted[c] # <<>> =>
            /\ lookup[c] # <<>>
            /\ \A k \in 1 .. Len(emitted[c]) : emitted[c][k].container = Stored(c)

C1_Witness ==
    \E c, d \in CPUs :
        /\ emitted[c] # <<>> /\ lookup[c] = << <<>> >>
        /\ emitted[c][1].container = "zero"
        /\ emitted[d] # <<>> /\ lookup[d] # << <<>> >>
        /\ emitted[d][1].container = "A"

\* C5: a firing whose mount namespace id is 0 emits nothing, leaves the
\* scratch slots unchanged and returns 0.
C5_SentinelShortCircuit ==
    [][\A c \in CPUs :
          (Starts(c) /\ cur'[c][1].task.mntns = 0) =>
              /\ emitted'[c] = <<>>
              /\ tmp_event' = tmp_event
              /\ ret'[c] = <<0>>
              /\ apc'[c] = "idle"]_vars

C5_Witness ==
    \E c \in CPUs :
        /\ cur[c] # <<>> /\ cur[c][1].task.mntns = 0
        /\ apc[c] = "idle" /\ ret[c] = <<0>> /\ emitted[c] = <<>>
        /\ tmp_event[c].container = "A"
        /\ with_filter /\ filter # {} /\ DOMAIN containers # {}

\* C6: with WITH_FILTER, a firing whose namespace id is not in the filter
\* emits nothing and writes no scratch slot; without it, every firing with a
\* non-zero namespace id goes on to build its event.
C6_AdmissionFilter ==
    [][\A c \in CPUs :
          (Starts(c) /\ cur'[c][1].task.mntns # 0) =>
              /\ (with_filter /\ cur'[c][1].task.mntns \notin filter) =>
                     /\ emitted'[c] = <<>>
                     /\ tmp_event' = tmp_event
                     /\ ret'[c] = <<0>>
                     /\ apc'[c] = "idle"
              /\ ~with_filter =>
                     /\ apc'[c] = "enrich"
                     /\ tmp_event'[c].mntns_id = cur'[c][1].task.mntns]_vars

C6_Witness ==
    \E c \in CPUs :
        /\ with_filter
        /\ cur[c] # <<>> /\ cur[c][1].task.mntns # 0
        /\ cur[c][1].task.mntns \notin filter
        /\ cur[c][1].task.mntns \in DOMAIN containers
        /\ apc[c] = "idle" /\ ret[c] = <<0>> /\ emitted[c] = <<>>
        /\ tmp_event[c] = ZeroEvent

\* C8: an emitted event carries the thread-group id of the current task, the
\* resolved namespace id, the first argument as syscall number and the third
\* argument as a 32-bit integer.
C8_EventFields ==
    \A c \in CPUs :
        \A k \in 1 .. Len(emitted[c]) :
            /\ emitted[c][k].pid = cur[c][1].task.pid_tgid.tgid
            /\ emitted[c][k].mntns_id = cur[c][1].task.mntns
            /\ emitted[c][k].syscall = cur[c][1].regs.parm1
            /\ emitted[c][k].code = cur[c][1].regs.parm3.lo

\* C10: under any interleaving across CPUs and any external table writes, a
\* firing emits at most one event, built in its own CPU's slot, and every
\* field of it comes from that firing.
C10_PerCpuIsolation ==
    \A c \in CPUs :
        /\ Len(emitted[c]) <= 1
        /\ emitted[c] # <<>> =>
               LET ev == emitted[c][1]
                   f  == cur[c][1]
               IN  /\ ev.pid \in {f.task.pid_tgid.tgid, f.task.pid_tgid.pid}
                   /\ ev.mntns_id = f.task.mntns
                   /\ ev.syscall = f.regs.parm1
                   /\ ev.code = f.regs.parm3.lo
                   /\ ev.comm = f.task.comm
                   /\ ev.container = Stored(c)
                   /\ tmp_event[c] = ev

C10_Witness ==
    \E c, d \in CPUs :
        /\ c # d
        /\ emitted[c] # <<>> /\ apc[c] = "idle"
        /\ apc[d] = "emit"
        /\ cur[c][1].task # cur[d][1].task
        /\ tmp_event[c].container # tmp_event[d].container

====
